---- MODULE Spec2Model ----
(***************************************************************************)
(* Model of ContactManager (src/cnct-mngr-3.py): the four in-memory        *)
(* collections, their JSON files, identifier allocation, the interactive   *)
(* add_* handlers and the cascading delete_organization.                   *)
(*                                                                         *)
(* Representation.                                                         *)
(*  - Text typed by the user, and every text field, is a tuple of          *)
(*    one-character strings (<<"a","b","c">>), so that int(), float() and   *)
(*    str() are computed digit by digit.                                   *)
(*  - A Python dict is a tuple of entries [k |-> key, v |-> value] in      *)
(*    insertion order.                                                     *)
(*  - A float is held in hundredths (19.99 is 1999).                       *)
(*  - A handler blocks in input(); pc names the handler that is waiting    *)
(*    and form holds the values its earlier prompts returned, so the       *)
(*    prompt it waits at is number Len(form) + 1.  One step of a handler   *)
(*    is everything it does between two calls of input().                  *)
(***************************************************************************)
EXTENDS Integers, Sequences, FiniteSets, TLC

VARIABLES
    organizations,  \* self.organizations
    employees,      \* self.employees
    customers,      \* self.customers
    products,       \* self.products
    files,          \* the four files of self.files, by data_type
    pc,             \* "menu", "stopped" or the handler waiting in input()
    form,           \* values returned by the waiting handler's earlier prompts
    faults,         \* how many _save_data calls have failed or been cut off
    assigned,       \* history: per data_type, every key the dict has ever held
    last            \* history: the step just taken (handler, prompt, entry, ...)

vars == <<organizations, employees, customers, products, files, pc, form,
          faults, assigned, last>>

mem == <<organizations, employees, customers, products>>

----------------------------------------------------------------------------
(* Bounds of the model.                                                    *)

\* largest id a handler may assign within one collection
MaxId == 2
\* largest number of employees, customers and products together
MaxRecords == 2
\* largest number of _save_data calls that fail or are cut off by a stop
MaxFaults == 1

----------------------------------------------------------------------------
(* Text and numbers.                                                       *)

Kinds == {"organizations", "employees", "customers", "products"}

\* Python's None, and the KeyboardInterrupt that input() raises on Ctrl-C
None == <<"None">>
KeyboardInterrupt == <<"^C">>

Digits == <<"0", "1", "2", "3", "4", "5", "6", "7", "8", "9">>
DigitSet == {Digits[i] : i \in 1..10}
DigitVal(c) == (CHOOSE i \in 1..10 : Digits[i] = c) - 1

AllDigits(s) == Len(s) > 0 /\ \A i \in 1..Len(s) : s[i] \in DigitSet

RECURSIVE NatOf(_)
NatOf(s) == IF s = <<>> THEN 0
            ELSE NatOf(SubSeq(s, 1, Len(s) - 1)) * 10 + DigitVal(s[Len(s)])

Signed(s) == Len(s) > 0 /\ s[1] \in {"-", "+"}
Unsigned(s) == IF Signed(s) THEN Tail(s) ELSE s
Sign(s) == IF Len(s) > 0 /\ s[1] = "-" THEN -1 ELSE 1

\* int(value): TRUE unless it raises ValueError
IsInt(s) == AllDigits(Unsigned(s))
IntOf(s) == Sign(s) * NatOf(Unsigned(s))

\* float(value) on decimal literals with at most two fraction digits
DotAt(s) == {i \in 1..Len(s) : s[i] = "."}
IsFloat(s) ==
    LET u == Unsigned(s) IN
    \/ AllDigits(u)
    \/ /\ Cardinality(DotAt(u)) = 1
       /\ LET d == CHOOSE i \in DotAt(u) : TRUE
              ip == SubSeq(u, 1, d - 1)
              fp == SubSeq(u, d + 1, Len(u))
          IN /\ Len(ip) + Len(fp) > 0
             /\ Len(fp) <= 2
             /\ ip = <<>> \/ AllDigits(ip)
             /\ fp = <<>> \/ AllDigits(fp)
FloatOf(s) ==
    LET u == Unsigned(s) IN
    IF DotAt(u) = {} THEN Sign(s) * NatOf(u) * 100
    ELSE LET d == CHOOSE i \in DotAt(u) : TRUE
             ip == SubSeq(u, 1, d - 1)
             fp == SubSeq(u, d + 1, Len(u))
             frac == IF Len(fp) = 1 THEN NatOf(fp) * 10 ELSE NatOf(fp)
         IN Sign(s) * (NatOf(ip) * 100 + frac)

\* str(n) of an int, as json.dump writes a dict key
RECURSIVE StrNat(_)
StrNat(n) == IF n < 10 THEN <<Digits[n + 1]>>
             ELSE StrNat(n \div 10) \o <<Digits[(n % 10) + 1]>>
StrInt(n) == IF n < 0 THEN <<"-">> \o StrNat(-n) ELSE StrNat(n)

----------------------------------------------------------------------------
(* Python dicts, in insertion order.                                       *)

Keys(d) == {d[i].k : i \in 1..Len(d)}
Has(d, key) == key \in Keys(d)
Get(d, key) == d[CHOOSE i \in 1..Len(d) : d[i].k = key].v
Values(d) == [i \in 1..Len(d) |-> d[i].v]

\* d[key] = val
Put(d, key, val) ==
    IF Has(d, key)
    THEN [i \in 1..Len(d) |-> IF d[i].k = key THEN [k |-> key, v |-> val] ELSE d[i]]
    ELSE Append(d, [k |-> key, v |-> val])

\* Del that forgets to remove the entry
Del_Nothing(d, key) == d

\* del d[key]
Del(d, key) == LET Keep(e) == e.k # key IN SelectSeq(d, Keep)

RECURSIVE MaxOf(_)
MaxOf(S) == IF S = {} THEN 0
            ELSE LET x == CHOOSE y \in S : TRUE
                     m == MaxOf(S \ {x})
                 IN IF x > m THEN x ELSE m

----------------------------------------------------------------------------
(* Persistence: _generate_id, _save_data, _load_data.                      *)

\* max(data_dict.keys(), default=0) + 1
GenerateId(data_dict) == MaxOf(Keys(data_dict)) + 1

\* A file is absent, holds a complete JSON object (items, keys as text), or
\* holds the prefix a failed json.dump left behind, which no parser accepts.
AbsentFile == [st |-> "absent", items |-> <<>>]
PartialFile == [st |-> "partial", items |-> <<>>]

\* json.dump(data): int keys are written as their decimal text
Dump(data) == [i \in 1..Len(data) |-> [k |-> StrInt(data[i].k), v |-> data[i].v]]

\* What one call of _save_data can meet:
\*   "ok"         the file is rewritten in full
\*   "open_fail"  open() raises before the file is touched
\*   "write_fail" open(.., 'w') has truncated the file and json.dump raises
\*   "stop"       the process stops before the call (nothing later runs)
Outcomes == {"ok", "open_fail", "write_fail", "stop"}

\* SaveData that opens the file for exclusive creation ('x' for 'w'): an
\* existing file is never rewritten
SaveData_OnlyIfNew(fs, data_type, data, outcome) ==
    IF outcome = "ok" /\ fs[data_type].st = "absent"
    THEN [fs EXCEPT ![data_type] = [st |-> "ok", items |-> Dump(data)]]
    ELSE fs

SaveData(fs, data_type, data, outcome) ==
    CASE outcome = "ok" ->
           [fs EXCEPT ![data_type] = [st |-> "ok", items |-> Dump(data)]]
      [] outcome = "write_fail" ->
           [fs EXCEPT ![data_type] = PartialFile]
      [] OTHER -> fs

\* FromItems that rebuilds the dict from the last item to the first: the
\* ids and the values are kept, the insertion order is not
FromItems_Reversed(items) ==
    [i \in 1..Len(items) |->
        [k |-> IntOf(items[Len(items) + 1 - i].k), v |-> items[Len(items) + 1 - i].v]]

\* {int(k): v for k, v in data.items()}
RECURSIVE FromItems(_)
FromItems(items) ==
    IF items = <<>> THEN <<>>
    ELSE LET n == Len(items)
         IN Put(FromItems(SubSeq(items, 1, n - 1)), IntOf(items[n].k), items[n].v)

\* LoadData without a try block of its own: one file that cannot be read
\* aborts the load of every kind
LoadData_AllOrNothing(fs, data_type) ==
    IF \E kind \in DOMAIN fs : fs[kind].st = "partial" THEN <<>>
    ELSE IF fs[data_type].st = "absent" THEN <<>>
    ELSE FromItems(fs[data_type].items)

LoadData(fs, data_type) ==
    LET f == fs[data_type] IN
    IF f.st = "absent" THEN <<>>
    ELSE IF f.st = "ok" /\ \A i \in 1..Len(f.items) : IsInt(f.items[i].k)
         THEN FromItems(f.items)
         ELSE <<>>   \* json.load or int() raised: error shown, empty dict

\* The _save_data calls of one handler, in order. writes[i] is
\* [kind, data]; io[i] is what call i meets.
RECURSIVE RunSaves(_, _, _)
RunSaves(fs, writes, io) ==
    IF writes = <<>> THEN [files |-> fs, stopped |-> FALSE, failed |-> {}]
    ELSE IF io[1] = "stop" THEN [files |-> fs, stopped |-> TRUE, failed |-> {}]
    ELSE LET rest == RunSaves(SaveData(fs, writes[1].kind, writes[1].data, io[1]),
                              Tail(writes), Tail(io))
         IN [rest EXCEPT !.failed =
                IF io[1] = "ok" THEN @ ELSE @ \cup {writes[1].kind}]

\* The outcome sequences of n saves that meet outcomes of F only, within
\* the bound on faults; nothing runs after a stop, so what follows it is "ok".
Bad(io) == Cardinality({i \in DOMAIN io : io[i] # "ok"})
IOs(n, F) ==
    {io \in [1..n -> F] :
        /\ faults + Bad(io) <= MaxFaults
        /\ \A i, j \in 1..n : (io[i] = "stop" /\ i < j) => io[j] = "ok"}

----------------------------------------------------------------------------
(* Input: _get_input and _get_valid_org_id.                                *)

Text == <<"a", "b", "c">>
\* what the user types at a required text prompt, and at an optional one
\* (text typed at an optional prompt is kept exactly as at a required one)
StrEntries == {<<>>, Text, KeyboardInterrupt}
OptEntries == {<<>>, KeyboardInterrupt}
IntEntries == {<<>>, <<"x">>, KeyboardInterrupt} \cup {StrInt(n) : n \in 0..(MaxId + 1)}
FloatEntries == {<<>>, <<"x">>, KeyboardInterrupt, <<"-", "5">>, <<"0">>,
                 <<"1", "9", ".", "9", "9">>}
DELETE == <<"D", "E", "L", "E", "T", "E">>
ConfirmEntries == {DELETE, <<>>, <<"n", "o">>, KeyboardInterrupt}

Again == [tag |-> "again", val |-> None]
ReturnNone == [tag |-> "none", val |-> None]
Return(v) == [tag |-> "value", val |-> v]

\* One pass of the loop of _get_input on the entry e (already stripped):
\* "again" when the loop goes round, else what it returns.
GetInput(e, input_type, required) ==
    IF e = KeyboardInterrupt THEN ReturnNone
    ELSE IF e = <<>> /\ ~required THEN ReturnNone
    ELSE IF e = <<>> /\ required THEN Again
    ELSE IF input_type = "str" THEN Return(e)
    ELSE IF input_type = "int" THEN (IF IsInt(e) THEN Return(IntOf(e)) ELSE Again)
    ELSE (IF IsFloat(e) THEN Return(FloatOf(e)) ELSE Again)

\* GetValidOrgId without the membership test
GetValidOrgId_AnyId(e) == GetInput(e, "int", TRUE)

\* One pass of the loop of _get_valid_org_id
GetValidOrgId(e) ==
    LET org_id == GetInput(e, "int", TRUE) IN
    IF org_id.tag # "value" THEN org_id
    ELSE IF Has(organizations, org_id.val) THEN org_id
    ELSE Again

\* `if not name`, for a str result
NotStr(r) == r.tag = "none" \/ r.val = <<>>
\* `if not org_id`, for an int result
NotInt(r) == r.tag = "none" \/ r.val = 0
\* what an optional prompt leaves in its variable
Held(r) == IF r.tag = "none" THEN None ELSE r.val
\* `x or ''`
OrEmpty(x) == IF x = None \/ x = <<>> THEN <<>> ELSE x

\* datetime.now().isoformat(): one instant stands for all
Now == <<"t">>

----------------------------------------------------------------------------
(* The state after ContactManager() on an empty data directory.            *)

Step(op, at, e, failed, removed) ==
    [op |-> op, at |-> at, entry |-> e, failed |-> failed, removed |-> removed]

Init ==
    /\ organizations = <<>>
    /\ employees = <<>>
    /\ customers = <<>>
    /\ products = <<>>
    /\ files = [k \in Kinds |-> AbsentFile]
    /\ pc = "menu"
    /\ form = <<>>
    /\ faults = 0
    /\ assigned = [k \in Kinds |-> {}]
    /\ last = Step("init", 0, <<>>, {}, 0)

----------------------------------------------------------------------------
(* What a handler's step does to pc and form.                              *)

\* the loop of _get_input (or of _get_valid_org_id) goes round
Reprompt(op, e) ==
    /\ UNCHANGED <<organizations, employees, customers, products, files, pc,
                   form, faults>>
    /\ last' = Step(op, Len(form) + 1, e, {}, 0)

\* the handler returns without committing
Leave(op, e) ==
    /\ pc' = "menu"
    /\ form' = <<>>
    /\ UNCHANGED <<organizations, employees, customers, products, files, faults>>
    /\ last' = Step(op, Len(form) + 1, e, {}, 0)

\* the handler keeps v and calls the next input()
Advance(op, e, v) ==
    /\ form' = Append(form, v)
    /\ UNCHANGED <<organizations, employees, customers, products, files, pc,
                   faults>>
    /\ last' = Step(op, Len(form) + 1, e, {}, 0)

\* the process ends: its memory is gone, the files stay
Stopped ==
    /\ pc' = "stopped"
    /\ form' = <<>>
    /\ organizations' = <<>>
    /\ employees' = <<>>
    /\ customers' = <<>>
    /\ products' = <<>>

\* The handler has changed the dicts to orgs, emps, custs, prods and now
\* makes its _save_data calls, then returns (its closing "Press Enter"
\* input() reads nothing that matters).
Commit(op, e, orgs, emps, custs, prods, writes, io, removed) ==
    LET r == RunSaves(files, writes, io) IN
    /\ files' = r.files
    /\ faults' = faults + Bad(io)
    /\ last' = Step(op, Len(form) + 1, e, r.failed, removed)
    /\ IF r.stopped THEN Stopped
       ELSE /\ pc' = "menu"
            /\ form' = <<>>
            /\ organizations' = orgs
            /\ employees' = emps
            /\ customers' = custs
            /\ products' = prods

Write(kind, data) == [kind |-> kind, data |-> data]

----------------------------------------------------------------------------
(* run and the four menus: the user picks a handler.                       *)

Adders == {"add_organization", "add_employee", "add_customer", "add_product"}
Handlers == Adders \cup {"delete_organization"}

\* the dict a handler adds to
Target(op) == CASE op = "add_organization" -> organizations
                [] op = "add_employee" -> employees
                [] op = "add_customer" -> customers
                [] op = "add_product" -> products

\* the bounds: no handler is started that would pass them
WithinBounds(op) ==
    /\ op \in Adders => GenerateId(Target(op)) <= MaxId
    /\ op \in Adders \ {"add_organization"} =>
          Len(employees) + Len(customers) + Len(products) < MaxRecords

\* Every handler but add_organization opens with _get_valid_org_id, which
\* returns None at once when there is no organization.
Select ==
    /\ pc = "menu"
    /\ \E op \in Handlers :
         /\ WithinBounds(op)
         /\ last' = Step(op, 0, <<>>, {}, 0)
         /\ form' = <<>>
         /\ pc' = IF op # "add_organization" /\ organizations = <<>>
                  THEN "menu" ELSE op
         /\ UNCHANGED <<organizations, employees, customers, products, files, faults>>

\* choice '0' (or Ctrl-C at a menu): the process ends
Exit ==
    /\ pc = "menu"
    /\ Stopped
    /\ last' = Step("exit", 0, <<>>, {}, 0)
    /\ UNCHANGED <<files, faults>>

\* the program is started again: __init__ runs _load_all_data
Restart ==
    /\ pc = "stopped"
    /\ organizations' = LoadData(files, "organizations")
    /\ employees' = LoadData(files, "employees")
    /\ customers' = LoadData(files, "customers")
    /\ products' = LoadData(files, "products")
    /\ pc' = "menu"
    /\ form' = <<>>
    /\ last' = Step("init", 0, <<>>, {}, 0)
    /\ UNCHANGED <<files, faults>>

----------------------------------------------------------------------------
(* add_organization: Name, Tax ID/OIB, Address, Website (optional).        *)

add_organization(F) ==
    /\ pc = "add_organization"
    /\ \E e \in (IF Len(form) < 3 THEN StrEntries ELSE OptEntries) :
         LET i == Len(form) + 1
             r == GetInput(e, "str", i <= 3)
             org_id == GenerateId(organizations)
             organization ==
                 [id |-> org_id, name |-> form[1], oib |-> form[2],
                  address |-> form[3], website |-> OrEmpty(Held(r)),
                  created_at |-> Now, employee_count |-> 0,
                  customer_count |-> 0, product_count |-> 0]
             orgs == Put(organizations, org_id, organization)
         IN IF r.tag = "again" THEN Reprompt("add_organization", e)
            ELSE IF i <= 3
                 THEN IF NotStr(r) THEN Leave("add_organization", e)
                      ELSE Advance("add_organization", e, r.val)
                 ELSE \E io \in IOs(1, F) :
                     Commit("add_organization", e, orgs, employees,
                                customers, products,
                                <<Write("organizations", orgs)>>, io, 0)

----------------------------------------------------------------------------
(* The handlers that reference an organization.                            *)

\* len([x for x in data.values() if x['organization_id'] == org_id])
CountFor(data, org_id) ==
    LET Mine(x) == x.organization_id = org_id
    IN Len(SelectSeq(Values(data), Mine))

\* SetCount that leaves the stored count as it was
SetCount_Skip(orgs, org_id, count, n) == orgs

\* self.organizations[org_id][count] = n
SetCount(orgs, org_id, count, n) ==
    Put(orgs, org_id, [Get(orgs, org_id) EXCEPT ![count] = n])

\* Without that empties the dict: the records of every organization go
Without_DropAll(data, org_id) == <<>>

\* Without that filters nothing out
Without_KeepAll(data, org_id) == data

\* {k: v for k, v in data.items() if v['organization_id'] != org_id}
Without(data, org_id) ==
    LET Other(x) == x.v.organization_id # org_id
    IN SelectSeq(data, Other)

\* add_employee: organization, First Name, Last Name, Position,
\* Phone (optional), Email (optional)
add_employee(F) ==
    /\ pc = "add_employee"
    /\ \E e \in (IF form = <<>> THEN IntEntries
                 ELSE IF Len(form) < 4 THEN StrEntries ELSE OptEntries) :
         LET i == Len(form) + 1
             r == IF i = 1 THEN GetValidOrgId(e) ELSE GetInput(e, "str", i <= 4)
             org_id == form[1]
             emp_id == GenerateId(employees)
             employee ==
                 [id |-> emp_id, first_name |-> form[2], last_name |-> form[3],
                  position |-> form[4], phone |-> OrEmpty(form[5]),
                  email |-> OrEmpty(Held(r)), organization_id |-> org_id,
                  created_at |-> Now]
             emps == Put(employees, emp_id, employee)
             orgs == SetCount(organizations, org_id, "employee_count",
                              CountFor(emps, org_id))
         IN IF r.tag = "again" THEN Reprompt("add_employee", e)
            ELSE IF i = 1
                 THEN IF NotInt(r) THEN Leave("add_employee", e)
                      ELSE Advance("add_employee", e, r.val)
            ELSE IF i <= 4
                 THEN IF NotStr(r) THEN Leave("add_employee", e)
                      ELSE Advance("add_employee", e, r.val)
            ELSE IF i = 5 THEN Advance("add_employee", e, Held(r))
            ELSE \E io \in IOs(2, F) :
                     Commit("add_employee", e, orgs, emps, customers, products,
                           <<Write("employees", emps), Write("organizations", orgs)>>,
                           io, 0)

\* add_customer: organization, Customer Name, then four optional prompts:
\* Contact Person, Phone, Email, Address
add_customer(F) ==
    /\ pc = "add_customer"
    /\ \E e \in (IF form = <<>> THEN IntEntries
                 ELSE IF Len(form) < 2 THEN StrEntries ELSE OptEntries) :
         LET i == Len(form) + 1
             r == IF i = 1 THEN GetValidOrgId(e) ELSE GetInput(e, "str", i <= 2)
             org_id == form[1]
             cust_id == GenerateId(customers)
             customer ==
                 [id |-> cust_id, name |-> form[2],
                  contact_person |-> OrEmpty(form[3]), phone |-> OrEmpty(form[4]),
                  email |-> OrEmpty(form[5]), address |-> OrEmpty(Held(r)),
                  organization_id |-> org_id, created_at |-> Now]
             custs == Put(customers, cust_id, customer)
             orgs == SetCount(organizations, org_id, "customer_count",
                              CountFor(custs, org_id))
         IN IF r.tag = "again" THEN Reprompt("add_customer", e)
            ELSE IF i = 1
                 THEN IF NotInt(r) THEN Leave("add_customer", e)
                      ELSE Advance("add_customer", e, r.val)
            ELSE IF i = 2
                 THEN IF NotStr(r) THEN Leave("add_customer", e)
                      ELSE Advance("add_customer", e, r.val)
            ELSE IF i <= 5 THEN Advance("add_customer", e, Held(r))
            ELSE \E io \in IOs(2, F) :
                     Commit("add_customer", e, orgs, employees, custs, products,
                           <<Write("customers", custs), Write("organizations", orgs)>>,
                           io, 0)

\* add_product: organization, Product Name, Product Code, Price (float),
\* Description (optional), Manufacturer (optional)
add_product(F) ==
    /\ pc = "add_product"
    /\ \E e \in (IF form = <<>> THEN IntEntries
                 ELSE IF Len(form) < 3 THEN StrEntries
                 ELSE IF Len(form) = 3 THEN FloatEntries ELSE OptEntries) :
         LET i == Len(form) + 1
             r == IF i = 1 THEN GetValidOrgId(e)
                  ELSE IF i = 4 THEN GetInput(e, "float", TRUE)
                  ELSE GetInput(e, "str", i <= 3)
             org_id == form[1]
             prod_id == GenerateId(products)
             product ==
                 [id |-> prod_id, name |-> form[2], code |-> form[3],
                  price |-> form[4], description |-> OrEmpty(form[5]),
                  manufacturer |-> OrEmpty(Held(r)), organization_id |-> org_id,
                  created_at |-> Now]
             prods == Put(products, prod_id, product)
             orgs == SetCount(organizations, org_id, "product_count",
                              CountFor(prods, org_id))
         IN IF r.tag = "again" THEN Reprompt("add_product", e)
            ELSE IF i = 1
                 THEN IF NotInt(r) THEN Leave("add_product", e)
                      ELSE Advance("add_product", e, r.val)
            ELSE IF i <= 3
                 THEN IF NotStr(r) THEN Leave("add_product", e)
                      ELSE Advance("add_product", e, r.val)
            ELSE IF i = 4
                 THEN IF r.tag = "none" THEN Leave("add_product", e)
                      ELSE Advance("add_product", e, r.val)
            ELSE IF i = 5 THEN Advance("add_product", e, Held(r))
            ELSE \E io \in IOs(2, F) :
                     Commit("add_product", e, orgs, employees, customers, prods,
                           <<Write("products", prods), Write("organizations", orgs)>>,
                           io, 0)

\* delete_organization: organization, then input() of the word DELETE.
\* That input() is not wrapped: Ctrl-C there leaves run() and ends the process.
delete_organization(F) ==
    /\ pc = "delete_organization"
    /\ \E e \in (IF form = <<>> THEN IntEntries ELSE ConfirmEntries) :
         LET i == Len(form) + 1
             r == GetValidOrgId(e)
             org_id == form[1]
             emps == Without(employees, org_id)
             custs == Without(customers, org_id)
             prods == Without(products, org_id)
             orgs == Del(organizations, org_id)
             removed == (Len(employees) - Len(emps)) + (Len(customers) - Len(custs))
                        + (Len(products) - Len(prods))
         IN IF i = 1
            THEN IF r.tag = "again" THEN Reprompt("delete_organization", e)
                 ELSE IF NotInt(r) THEN Leave("delete_organization", e)
                 ELSE Advance("delete_organization", e, r.val)
            ELSE IF e = KeyboardInterrupt
                 THEN /\ Stopped
                      /\ last' = Step("delete_organization", i, e, {}, 0)
                      /\ UNCHANGED <<files, faults>>
            ELSE IF e # DELETE THEN Leave("delete_organization", e)
            ELSE \E io \in IOs(4, F) :
                     Commit("delete_organization", e, orgs, emps, custs, prods,
                           <<Write("organizations", orgs), Write("employees", emps),
                             Write("customers", custs), Write("products", prods)>>,
                           io, removed)

----------------------------------------------------------------------------
(* The program with a disk that works, and with one that can fail.         *)

Coll(kind) == CASE kind = "organizations" -> organizations
                [] kind = "employees" -> employees
                [] kind = "customers" -> customers
                [] kind = "products" -> products

\* the history variable: every key a dict has ever held
Recorded == assigned' = [k \in Kinds |-> assigned[k] \cup Keys(Coll(k))']

\* a step that leaves the history variable alone
Plain(step) == step /\ UNCHANGED assigned

Next ==
    \/ Plain(Select)
    \/ Plain(add_organization({"ok"}))
    \/ Plain(add_employee({"ok"}))
    \/ Plain(add_customer({"ok"}))
    \/ Plain(add_product({"ok"}))
    \/ Plain(delete_organization({"ok"}))
    \/ Plain(Exit)
    \/ Plain(Restart)

Spec == Init /\ [][Next]_vars

\* the same program, observed with the keys its dicts have held so far
HistNext ==
    \/ Select /\ Recorded
    \/ add_organization({"ok"}) /\ Recorded
    \/ add_employee({"ok"}) /\ Recorded
    \/ add_customer({"ok"}) /\ Recorded
    \/ add_product({"ok"}) /\ Recorded
    \/ delete_organization({"ok"}) /\ Recorded
    \/ Exit /\ Recorded
    \/ Restart /\ Recorded

HistSpec == Init /\ [][HistNext]_vars

\* the program on a disk whose writes can fail, and that can be stopped
FaultNext ==
    \/ Plain(Select)
    \/ Plain(add_organization(Outcomes))
    \/ Plain(add_employee(Outcomes))
    \/ Plain(add_customer(Outcomes))
    \/ Plain(add_product(Outcomes))
    \/ Plain(delete_organization(Outcomes))
    \/ Plain(Exit)
    \/ Plain(Restart)

FaultSpec == Init /\ [][FaultNext]_vars

----------------------------------------------------------------------------
(* The program started on a data directory that earlier runs have left.    *)

\* the records the add handlers build
OrgRec(id, ne, nc, np) ==
    [id |-> id, name |-> Text, oib |-> Text, address |-> Text,
     website |-> <<>>, created_at |-> Now, employee_count |-> ne,
     customer_count |-> nc, product_count |-> np]
EmpRec(id, org_id) ==
    [id |-> id, first_name |-> Text, last_name |-> Text, position |-> Text,
     phone |-> <<>>, email |-> <<>>, organization_id |-> org_id,
     created_at |-> Now]
CustRec(id, org_id) ==
    [id |-> id, name |-> Text, contact_person |-> <<>>, phone |-> <<>>,
     email |-> <<>>, address |-> <<>>, organization_id |-> org_id,
     created_at |-> Now]
ProdRec(id, org_id, price) ==
    [id |-> id, name |-> Text, code |-> Text, price |-> price,
     description |-> <<>>, manufacturer |-> <<>>, organization_id |-> org_id,
     created_at |-> Now]

\* The keys of the four dicts (organizations, employees, customers,
\* products) as earlier runs left them: in the order of insertion, with gaps
\* where records were deleted, with one and with two digits.
LeftDirs ==
    { << <<1, 2>>, <<1>>, <<2>>, <<>> >>,
      << <<2, 10>>, <<9, 10, 12>>, <<>>, <<1>> >>,
      << <<9, 10, 12>>, <<2, 10>>, <<1>>, <<>> >> }

\* the organization that record number i of a dict belongs to
OwnerOf(orgKeys, i) == orgKeys[((i - 1) % Len(orgKeys)) + 1]

\* the four dicts with the given keys, counts in step with the records
LeftStore(orgKeys, empKeys, custKeys, prodKeys) ==
    LET emps == [i \in 1..Len(empKeys) |->
                    [k |-> empKeys[i], v |-> EmpRec(empKeys[i], OwnerOf(orgKeys, i))]]
        custs == [i \in 1..Len(custKeys) |->
                    [k |-> custKeys[i], v |-> CustRec(custKeys[i], OwnerOf(orgKeys, i))]]
        prods == [i \in 1..Len(prodKeys) |->
                    [k |-> prodKeys[i],
                     v |-> ProdRec(prodKeys[i], OwnerOf(orgKeys, i), 1999)]]
        orgs == [i \in 1..Len(orgKeys) |->
                    [k |-> orgKeys[i],
                     v |-> OrgRec(orgKeys[i], CountFor(emps, orgKeys[i]),
                                  CountFor(custs, orgKeys[i]),
                                  CountFor(prods, orgKeys[i]))]]
    IN [organizations |-> orgs, employees |-> emps, customers |-> custs,
        products |-> prods]

\* The files of a store every dict of which was saved, except that the file
\* of the kind `broken` is missing or was cut short by a failed save.
LeftFiles(store, broken, how) ==
    [kind \in Kinds |->
        IF kind = broken THEN [st |-> how, items |-> <<>>]
        ELSE [st |-> "ok", items |-> Dump(store[kind])]]

\* the program has not been started yet
StartInit ==
    /\ \E dir \in LeftDirs, broken \in Kinds \cup {"none"},
          how \in {"absent", "partial"} :
         files = LeftFiles(LeftStore(dir[1], dir[2], dir[3], dir[4]), broken, how)
    /\ organizations = <<>>
    /\ employees = <<>>
    /\ customers = <<>>
    /\ products = <<>>
    /\ pc = "stopped"
    /\ form = <<>>
    /\ faults = 0
    /\ assigned = [k \in Kinds |-> {}]
    /\ last = Step("exit", 0, <<>>, {}, 0)

StartSpec == StartInit /\ [][Next]_vars

----------------------------------------------------------------------------
(* Properties.                                                             *)

Dependents == {"employees", "customers", "products"}
WithOrg == {"add_employee", "add_customer", "add_product"}

\* the records of a dict that reference organization o
Referencing(data, o) == {i \in 1..Len(data) : data[i].v.organization_id = o}

\* what a reload would find in the file of a kind
Durable(fs, kind) == LoadData(fs, kind)

\* the step being taken is a confirmed delete_organization
ConfirmedDelete ==
    /\ pc = "delete_organization"
    /\ Len(form) = 1
    /\ last'.entry = DELETE

\* C1. Referential integrity: every employee, customer and product in memory
\* has an organization_id that is a key of the organizations dict.
C1_ReferentialIntegrity ==
    \A kind \in Dependents :
        \A i \in 1..Len(Coll(kind)) :
            Has(organizations, Coll(kind)[i].v.organization_id)

\* a cascade has just removed a record, and an employee of another
\* organization is still there
C1_Witness ==
    /\ last.op = "delete_organization"
    /\ last.removed > 0
    /\ employees # <<>>

\* C2. Cascade completeness: a confirmed delete_organization(O) ends with O
\* absent from organizations and with no employee, customer or product whose
\* organization_id is O.
C2_CascadeComplete ==
    [][ConfirmedDelete =>
          /\ ~Has(organizations', form[1])
          /\ Referencing(employees', form[1]) = {}
          /\ Referencing(customers', form[1]) = {}
          /\ Referencing(products', form[1]) = {}]_vars

\* a confirmed delete has just removed an organization with two dependents
C2_Witness ==
    /\ last.op = "delete_organization"
    /\ last.entry = DELETE
    /\ last.removed = 2
    /\ pc = "menu"

\* C3. Count consistency: for every organization present, employee_count,
\* customer_count and product_count equal the number of employees, customers
\* and products that reference it.
C3_CountConsistency ==
    \A i \in 1..Len(organizations) :
        LET O == organizations[i] IN
        /\ O.v.employee_count = Cardinality(Referencing(employees, O.k))
        /\ O.v.customer_count = Cardinality(Referencing(customers, O.k))
        /\ O.v.product_count = Cardinality(Referencing(products, O.k))

\* an organization with two employees next to one with none, or one with an
\* employee and a customer
C3_Witness ==
    \E i \in 1..Len(organizations) :
        \/ organizations[i].v.employee_count = 2 /\ Len(organizations) = 2
        \/ /\ organizations[i].v.employee_count = 1
           /\ organizations[i].v.customer_count = 1

\* C4. Identifiers are never reused: a key that a dict has held at some
\* earlier point is never given to a record created later.
C4_NeverReused ==
    [][pc # "stopped" =>
          \A kind \in Kinds :
              (Keys(Coll(kind))' \ Keys(Coll(kind))) \cap assigned[kind] = {}]_vars

\* the step being taken answers the organization prompt of an add handler
\* with an id that no organization has
NamesAbsent ==
    /\ pc \in WithOrg
    /\ form = <<>>
    /\ IsInt(last'.entry)
    /\ ~Has(organizations, IntOf(last'.entry))

\* the step being taken starts an add handler while no organization exists
NoneExists ==
    /\ pc = "menu"
    /\ organizations = <<>>
    /\ last'.op \in WithOrg

\* C5. Reference enforcement: an add_employee, add_customer or add_product
\* request naming an organization_id that is not in organizations (also when
\* there is no organization at all) is not taken up: no record is created,
\* and the four dicts and the four files stay as they were.
C5_ReferenceEnforced ==
    [][(NamesAbsent \/ NoneExists) =>
          /\ form' = <<>>
          /\ NoneExists => pc' = "menu"
          /\ UNCHANGED <<organizations, employees, customers, products, files>>]_vars

\* add_product has just been answered with the id 3, which no organization has
C5_Witness ==
    /\ last.op = "add_product"
    /\ last.at = 1
    /\ last.entry = <<"3">>
    /\ organizations # <<>>
    /\ ~Has(organizations, 3)

\* C6. Cancellation leaves the store unchanged: an interrupt at any prompt
\* of an add handler, required or optional, commits nothing.
C6_CancelLeavesStore ==
    [][(pc \in Adders /\ last'.entry = KeyboardInterrupt) =>
          UNCHANGED <<organizations, employees, customers, products, files>>]_vars

\* C7. No partial cascade is observable: after a confirmed
\* delete_organization(O), whatever happens to its four writes, a reload
\* finds either O and its records gone from all four files or all four
\* files as they were.
C7_NoPartialCascade ==
    [][ConfirmedDelete =>
          \/ /\ ~Has(Durable(files', "organizations"), form[1])
             /\ \A kind \in Dependents :
                    Referencing(Durable(files', kind), form[1]) = {}
          \/ \A kind \in Kinds : Durable(files', kind) = Durable(files, kind)]_vars

\* C8. A failed save does not destroy persisted data: the file of a kind
\* whose save failed still holds its previous complete content.
C8_FailedSaveKeepsFile ==
    [][\A kind \in last'.failed : files'[kind] = files[kind]]_vars

\* C9. Write-through persistence: with writes that succeed, the file of
\* every kind holds exactly the dict in memory whenever the program runs
\* (a dict never saved is empty and has no file).
C9_WriteThrough ==
    pc # "stopped" =>
        \A kind \in Kinds :
            \/ files[kind].st = "absent" /\ Coll(kind) = <<>>
            \/ files[kind].st = "ok" /\ files[kind].items = Dump(Coll(kind))

\* add_employee has just returned, and the recomputed count is on disk
C9_Witness ==
    /\ last.op = "add_employee"
    /\ last.at = 6
    /\ pc = "menu"
    /\ \E i \in 1..Len(organizations) : organizations[i].v.employee_count = 1
    /\ files["employees"].items # <<>>

\* C10. Product prices are non-negative: every product stored has
\* price >= 0.
C10_PriceNonNegative ==
    \A i \in 1..Len(products) : products[i].v.price >= 0


\* C11: load never aborts. Starting the program on any data directory ends
\* at the main menu; each kind whose file is absent or present but malformed
\* is loaded as the empty dict, and every other kind is still loaded with
\* exactly the records its file holds.
C11_LoadNeverAborts ==
    [][pc = "stopped" =>
        /\ pc' = "menu"
        /\ \A kind \in Kinds :
             /\ files[kind].st = "absent" => Coll(kind)' = <<>>
             /\ files[kind].st = "partial" => Coll(kind)' = <<>>
             /\ files[kind].st = "ok" =>
                  /\ Len(Coll(kind)') = Len(files[kind].items)
                  /\ \A i \in 1..Len(files[kind].items) :
                       /\ StrInt(Coll(kind)'[i].k) = files[kind].items[i].k
                       /\ Coll(kind)'[i].v = files[kind].items[i].v]_vars

\* the program has just started on a directory one file of which is
\* malformed, and holds the records of another file
C11_Witness ==
    /\ last.op = "init"
    /\ pc = "menu"
    /\ \E bad \in Kinds, kind \in Kinds :
         /\ kind # bad
         /\ files[bad].st = "partial"
         /\ Coll(bad) = <<>>
         /\ files[kind].st = "ok"
         /\ Coll(kind) # <<>>

C13_CascadeFrame ==
    [][(pc = "delete_organization" /\ Len(form) = 1) =>
          IF last'.entry = DELETE
          THEN /\ pc' = "menu"
               /\ \A i \in 1..Len(organizations) :
                     organizations[i].k # form[1] =>
                        \E j \in 1..Len(organizations') :
                            organizations'[j] = organizations[i]
               /\ \A j \in 1..Len(organizations') :
                     \E i \in 1..Len(organizations) :
                         organizations[i] = organizations'[j]
               /\ \A kind \in Dependents :
                     /\ \A i \in 1..Len(Coll(kind)) :
                           Coll(kind)[i].v.organization_id # form[1] =>
                              \E j \in 1..Len(Coll(kind)') :
                                  Coll(kind)'[j] = Coll(kind)[i]
                     /\ \A j \in 1..Len(Coll(kind)') :
                           \E i \in 1..Len(Coll(kind)) :
                               Coll(kind)[i] = Coll(kind)'[j]
          ELSE /\ UNCHANGED files
               /\ pc' # "stopped" =>
                     UNCHANGED <<organizations, employees, customers, products>>]_vars

\* a confirmed delete has just removed an organization and its one record,
\* and another organization with a record of its own is still there
C13_Witness ==
    /\ last.op = "delete_organization"
    /\ last.entry = DELETE
    /\ last.removed = 1
    /\ pc = "menu"
    /\ \E i \in 1..Len(organizations), kind \in Dependents :
          Referencing(Coll(kind), organizations[i].k) # {}

====
